---- MODULE Spec2Model ----
(***************************************************************************)
(* python-habit-tracker: the Reconciler (rebuild.py) and the Completion    *)
(* Collector (collect.py) as one sequential state machine.  The two        *)
(* scripts are batch runs that never overlap; a run is a sequence of local *)
(* steps and remote calls, each remote call answered by the remote         *)
(* service with one of a small set of outcomes.                            *)
(***************************************************************************)
EXTENDS Integers, Sequences, FiniteSets, Bags, TLC

(* ------------------------------ bounds --------------------------------- *)
MaxRuns == 2          \* script runs in one behaviour
MaxId == 3            \* remote task identifiers 1..MaxId
MaxDay == 2           \* calendar days 1..MaxDay
MaxShort == 2         \* length of a short (last) page of completed items
MaxDays == 7          \* days since the last completion: -1..MaxDays, or never
MaxHistory == 7       \* completion dates go back MaxHistory days from today

(* ------------------------- program constants --------------------------- *)
ListMaxAttempts == 4      \* with_retries default, used by the list call
DeleteMaxAttempts == 3    \* with_retries(do_delete, max_attempts=3, ...)
ParentMaxAttempts == 4    \* with_retries(create parent, max_attempts=4, ...)
Limit == 200              \* params["limit"]
NeverEaten == 999         \* Days_Since_Eaten of an item never completed

NaN == "<NaN>"            \* pandas missing value

(* ------------------------------ state ---------------------------------- *)
VARIABLES
    runs,             \* number of runs started so far
    day,              \* today (UTC calendar day)
    remote,           \* active tasks of the target project: [id, content]
    completed,        \* remote: today's completed items, in response order
    logFile,          \* habit_record.csv: [exists, rows]
    refFile,          \* habit_reference.csv: [exists, hasHabit, rows]
    script,           \* "none" | "rebuild" | "collect"
    pc,               \* position in the running script
    exitCode,         \* -1 while running or before any run, else exit status
    attempt,          \* with_retries: attempt
    task_ids,         \* rebuild.py: task_ids
    idx,              \* rebuild.py: position of the delete loop in task_ids
    deleted_count,    \* rebuild.py: deleted_count
    parent_id,        \* rebuild.py: parent_id
    completed_items,  \* collect.py: completed_items
    offset,           \* collect.py: params["offset"]
    hist,             \* observation of the current run (requests, writes, ...)
    engine            \* one call of the ranking functions: inputs and results

vars == <<runs, day, remote, completed, logFile, refFile, script, pc,
          exitCode, attempt, task_ids, idx, deleted_count, parent_id,
          completed_items, offset, hist, engine>>

envVars == <<day, remote, completed>>
fileVars == <<logFile, refFile>>
rebuildLocals == <<attempt, task_ids, idx, deleted_count, parent_id>>
collectLocals == <<completed_items, offset>>

(* ------------------------------ helpers -------------------------------- *)
Range(s) == {s[i] : i \in 1..Len(s)}

Min(a, b) == IF a < b THEN a ELSE b

RECURSIVE SetToSeq(_)
\* the tasks of a set in ascending id order (the order the remote lists them)
SetToSeq(S) ==
    IF S = {} THEN <<>>
    ELSE LET m == CHOOSE x \in S : \A y \in S : x.id <= y.id
         IN <<m>> \o SetToSeq(S \ {m})

(* ------------------------- the remote project -------------------------- *)
ParentContentAsItem == "a"       \* the parent is given a reference item's text
ParentContent == "P"             \* f"Eat {remaining_goal} plant foods today (...)"

\* the tasks the project may hold before the first run
InitialTasks == {[id |-> 1, content |-> "a"], [id |-> 2, content |-> "a"]}

Ids(T) == {t.id : t \in T}

\* an identifier the service has not handed out to anything the run still knows
FreshIds == (1..MaxId) \ (Ids(remote) \cup Range(task_ids))
FreshId == CHOOSE i \in FreshIds : \A j \in FreshIds : i <= j

(* ---- rebuild.py 149-186: the list response and its normalisation ------ *)
\* a JSON value under a key of the response object
Absent == [tag |-> "absent", v |-> <<>>]
NonList == [tag |-> "nonlist", v |-> <<>>]
JList(es) == [tag |-> "list", v |-> es]

\* entries of the listed sequence; 0 stands for a missing or falsy field
DictEntry(i, t, s) == [t |-> "dict", id |-> i, task_id |-> t, id_str |-> s, s |-> 0]
StrEntry(i) == [t |-> "str", id |-> 0, task_id |-> 0, id_str |-> 0, s |-> i]
JunkEntry == [t |-> "other", id |-> 0, task_id |-> 0, id_str |-> 0, s |-> 0]

Styles == {"id", "task_id", "id_str", "noid", "str", "junk"}
Entry(task, style) ==
    CASE style = "id" -> DictEntry(task.id, 0, 0)
      [] style = "noid" -> DictEntry(0, 0, 0)
      [] style = "task_id" -> DictEntry(0, task.id, 0)
      [] style = "id_str" -> DictEntry(0, 0, task.id)
      [] style = "str" -> StrEntry(task.id)
      [] OTHER -> JunkEntry

Shapes == {"list", "results", "items", "data", "nolist", "scalar"}
Body(shape, es) ==
    CASE shape = "list" ->
           [kind |-> "list", list |-> es, results |-> Absent, items |-> Absent, data |-> Absent]
      [] shape = "results" ->
           [kind |-> "dict", list |-> <<>>, results |-> JList(es), items |-> Absent, data |-> Absent]
      [] shape = "items" ->
           [kind |-> "dict", list |-> <<>>, results |-> NonList, items |-> JList(es), data |-> Absent]
      [] shape = "data" ->
           [kind |-> "dict", list |-> <<>>, results |-> Absent, items |-> NonList, data |-> JList(es)]
      [] shape = "nolist" ->
           [kind |-> "dict", list |-> <<>>, results |-> Absent, items |-> Absent, data |-> NonList]
      [] OTHER ->
           [kind |-> "other", list |-> <<>>, results |-> Absent, items |-> Absent, data |-> Absent]

\* the styles of a listed sequence's entries: the first, the second, the
\* first again, ...
StyleLists == [1..2 -> Styles]

\* what GET /tasks?project_id=... may answer for the active tasks T
ListResponse(T, shape, styles) ==
    LET tasks == SetToSeq(T)
    IN Body(shape, [i \in 1..Len(tasks) |-> Entry(tasks[i], styles[2 - (i % 2)])])

\* lines 152-168
source_list(existing_tasks) ==
    IF existing_tasks.kind = "dict"
    THEN IF existing_tasks.results.tag = "list" THEN existing_tasks.results.v
         ELSE IF existing_tasks.items.tag = "list" THEN existing_tasks.items.v
         ELSE IF existing_tasks.data.tag = "list" THEN existing_tasks.data.v
         ELSE <<>>
    ELSE IF existing_tasks.kind = "list" THEN existing_tasks.list
    ELSE <<>>

\* bare identifier strings are not taken
extract_task_id_dicts_only(entry) ==
    IF entry.t = "dict"
    THEN IF entry.id # 0 THEN entry.id
         ELSE IF entry.task_id # 0 THEN entry.task_id
         ELSE entry.id_str
    ELSE 0

\* lines 173-178; 0 is None
extract_task_id(entry) ==
    IF entry.t = "dict"
    THEN IF entry.id # 0 THEN entry.id
         ELSE IF entry.task_id # 0 THEN entry.task_id
         ELSE entry.id_str
    ELSE IF entry.t = "str" THEN entry.s
    ELSE 0

\* entries without an identifier are not skipped
collect_task_ids_unfiltered(src) == [i \in 1..Len(src) |-> extract_task_id(src[i])]

RECURSIVE collect_task_ids(_)
\* lines 180-186
collect_task_ids(src) ==
    IF src = <<>> THEN <<>>
    ELSE LET tid == extract_task_id(Head(src))
         IN (IF tid # 0 THEN <<tid>> ELSE <<>>) \o collect_task_ids(Tail(src))

(* -------------------- rebuild.py 39-50: with_retries ------------------- *)
\* the failure is retried for ever
with_retries_raises_never(att, max_attempts) == FALSE

\* off by one: one invocation too many before the failure is re-raised
with_retries_raises_late(att, max_attempts) == att + 1 > max_attempts

\* after a RequestException: attempt += 1; re-raise iff attempt >= max_attempts
with_retries_raises(att, max_attempts) == att + 1 >= max_attempts

(* ------------- the completion log and its CSV round trip --------------- *)
\* A row of habit_record.csv: Date (a calendar day), Habit, TaskId.  Cells
\* are the texts in the file.  CompletedAt is written by collect.py and read
\* by nothing; it is not tracked.
Row(d, h, t) == [Date |-> d, Habit |-> h, TaskId |-> t]

\* texts pandas.read_csv reads as a missing value (its default na_values)
NAValues == {"", "NA"}
\* texts pandas.read_csv reads as a number, and the float they denote
NumericTexts == {"7", "7.0"}
FloatText(c) == "7.0"

Cells(rows, col) == {rows[i][col] : i \in 1..Len(rows)}

\* dtype read_csv infers for a column: all cells missing or numeric gives a
\* numeric column (float64 as soon as a cell is missing or has a fraction)
ColumnType(rows, col) ==
    LET present == Cells(rows, col) \ NAValues
    IN IF present \subseteq NumericTexts
       THEN IF Cells(rows, col) \subseteq {"7"} THEN "int64" ELSE "float64"
       ELSE "object"

\* one cell as read_csv parses it, shown as str() of the parsed value
ParseCell(c, type) ==
    IF c \in NAValues THEN NaN
    ELSE IF type = "float64" THEN FloatText(c)
    ELSE c

\* collect.py 58-66, rebuild.py 54-57: pd.read_csv (or the empty frame)
read_csv(file) ==
    IF ~file.exists THEN <<>>
    ELSE [i \in 1..Len(file.rows) |->
            Row(file.rows[i].Date,
                ParseCell(file.rows[i].Habit, ColumnType(file.rows, "Habit")),
                ParseCell(file.rows[i].TaskId, ColumnType(file.rows, "TaskId")))]

\* to_csv writes a missing value as the empty text
WriteCell(v) == IF v = NaN THEN "" ELSE v

\* collect.py 103, rebuild.py 118: DataFrame.to_csv(index=False)
to_csv(frame) ==
    [exists |-> TRUE,
     rows |-> [i \in 1..Len(frame) |->
                 Row(frame[i].Date, WriteCell(frame[i].Habit), WriteCell(frame[i].TaskId))]]

(* ----------------------- collect.py 71-97: dedupe ---------------------- *)
PROJECT_ID == "6fg2294Gpqqj6f79"

\* str.strip() on the contents used here
Strip(s) == IF s = " " THEN "" ELSE s

\* a completed item as the remote returns it; id "" stands for no id/task_id
Item(p, c, i) == [project_id |-> p, content |-> c, id |-> i]

\* lines 85-88
is_dup(habit_record, task_id, content, today_str) ==
    IF task_id # ""
    THEN \E i \in 1..Len(habit_record) : habit_record[i].TaskId = task_id
    ELSE \E i \in 1..Len(habit_record) :
            habit_record[i].Date = today_str /\ habit_record[i].Habit = content

\* lines 72-90: the item passes the project, blank-text and duplicate tests
is_queued(it, habit_record, today_str) ==
    /\ it.project_id = PROJECT_ID
    /\ Strip(it.content) # ""
    /\ ~is_dup(habit_record, it.id, Strip(it.content), today_str)

\* lines 69-97: the rows queued for the items, in order
new_entries(items, habit_record, today_str) ==
    LET Queued(it) == is_queued(it, habit_record, today_str)
        kept == SelectSeq(items, Queued)
    IN [i \in 1..Len(kept) |-> Row(today_str, Strip(kept[i].content), kept[i].id)]

(* ---------------- rebuild.py 101-114: the priority tier ---------------- *)
\* the highest tier starts a day late
get_priority_late(days) ==
    IF days > 6 THEN 4
    ELSE IF days = 5 THEN 3
    ELSE IF 3 <= days /\ days <= 4 THEN 2
    ELSE 1

\* lines 105-112
get_priority(days) ==
    IF days >= 6 THEN 4
    ELSE IF days = 5 THEN 3
    ELSE IF 3 <= days /\ days <= 4 THEN 2
    ELSE 1

\* lines 101-103: today - Last_Date_Eaten in days (negative for a date after
\* today), 999 for an item with no completion
DayInputs == (-1..MaxDays) \cup {NeverEaten}

(* ------------- the Streak & Ranking Engine (design, 4.1) --------------- *)
\* Calendar days are numbered; the days of February 2026 have their day of
\* the month.
Today == 16               \* "today" of a call
EpochNormal == 14         \* first day of the completion window
EpochUrgent == 16         \* the same, for an urgent item: another fixed date

Max(a, b) == IF a > b THEN a ELSE b
Earliest(D) == CHOOSE d \in D : \A e \in D : d <= e

RECURSIVE streak_back(_, _)
\* step 2: from day d backwards, count the days while they are in the set
streak_back(D, d) == IF d \in D THEN 1 + streak_back(D, d - 1) ELSE 0

\* the count starts at today
current_streak_from_today(D, today) == streak_back(D, today)

\* step 2: consecutive days ending at yesterday
current_streak(D, today) == streak_back(D, today - 1)

RECURSIVE scan_runs(_, _, _, _)
\* step 3: the dates not yet visited in ascending order, the date visited
\* last, the length of the run it ends and the longest run so far
scan_runs(D, prev, run, best) ==
    IF D = {} THEN best
    ELSE LET d == Earliest(D)
             r == IF d = prev + 1 THEN run + 1 ELSE 1
         IN scan_runs(D \ {d}, d, r, Max(best, r))

\* gaps do not end a run
best_streak_gapless(D) == Cardinality(D)

\* step 3: the longest run of consecutive dates
best_streak(D) == IF D = {} THEN 0 ELSE scan_runs(D, Earliest(D) - 2, 0, 0)

\* step 4: the completion window
epoch(is_urgent) == IF is_urgent THEN EpochUrgent ELSE EpochNormal
total_days(is_urgent, today) ==
    IF today - 1 < epoch(is_urgent) THEN 0 ELSE (today - 1) - epoch(is_urgent) + 1
days_completed(D, is_urgent, today) ==
    Cardinality({d \in D : epoch(is_urgent) <= d /\ d <= today - 1})

\* step 5: round(days_completed / total_days * 100), halves to the even side
percentage(done, total) ==
    IF total = 0 THEN 0
    ELSE LET q == (100 * done) \div total
             r == (100 * done) % total
         IN IF 2 * r < total THEN q
            ELSE IF 2 * r > total THEN q + 1
            ELSE IF q % 2 = 0 THEN q ELSE q + 1

\* the output of the engine
streaks(D, is_urgent, today) ==
    [current_streak |-> current_streak(D, today),
     best_streak |-> best_streak(D),
     percentage |-> percentage(days_completed(D, is_urgent, today),
                               total_days(is_urgent, today)),
     days_completed |-> days_completed(D, is_urgent, today),
     total_days |-> total_days(is_urgent, today)]

\* step 1: the date sets of an item: days of the last MaxHistory days, today
\* included
DateSets == SUBSET ((Today - MaxHistory)..Today)

(* --------------------------- remote outcomes --------------------------- *)
\* How the remote service answers one HTTP request: a response with a
\* status, or a RequestException.  "timeout" is the RequestException raised
\* when the service carried the request out and the answer was lost.
StatusOf(out) ==
    CASE out = "ok" -> 200
      [] out = "ok_noid" -> 200
      [] out = "410" -> 410
      [] OTHER -> 500

Raises(out) == out \in {"neterr", "timeout"}
Applied(out) == out \in {"ok", "ok_noid", "timeout"}

\* the credential check is left out
credential_missing_never(tok) == FALSE

\* rebuild.py 19, collect.py 12: if not TODOIST_TOKEN
credential_missing(tok) == ~tok

\* the 410 branch is left out
is_410_never(status) == FALSE

\* rebuild.py 133, 199, 233; collect.py 31
is_410(status) == status = 410
\* every answered delete is counted
is_2xx_any(status) == TRUE
\* the upper end of the range is not tested
is_2xx_open(status) == 200 <= status

\* rebuild.py 208: not (200 <= status_code < 300), negated
is_2xx(status) == 200 <= status /\ status < 300

(* --------------------- observation of the current run ------------------ *)
HistInit(tok) ==
    [token |-> tok,            \* TODOIST_TOKEN is set
     req |-> "none",           \* the request the last step issued
     wrote |-> {},             \* the files the last step wrote
     anyReq |-> FALSE, anyWrite |-> FALSE,
     got410 |-> FALSE,         \* a response of this run had status 410
     late |-> FALSE,           \* a request or write followed a 410 response
     allOk |-> TRUE,           \* every request so far was answered 2xx
     exc |-> "",               \* what ended the run
     key |-> <<"none", 0>>,    \* the with_retries call in progress or last made
     invocations |-> 0,        \* invocations of the wrapped call under key
     fails |-> 0,              \* of which raised RequestException
     result |-> "none",        \* "running" | "returned" | "raised"
     delTried |-> {},          \* ids a delete request was issued for
     del2xx |-> 0,             \* delete requests answered 2xx
     created |-> FALSE,        \* a create request has been issued
     lateDelete |-> FALSE,     \* a delete request followed a create request
     earlyCreate |-> FALSE,    \* a create was issued with a delete outstanding
     appended |-> 0,           \* rows the Collector appended
     listed |-> <<>>,          \* the body the last step's list call returned, if any
     listStatus |-> 0,         \* status of the list response, 0 if none
     parentOut |-> "none",     \* answer to the last parent create
     childReqs |-> 0,          \* child create requests issued
     writes |-> [log |-> 0, ref |-> 0],   \* times each file was written
     reqAfterWrite |-> FALSE,  \* a request followed a file write
     writeAfterReq |-> FALSE,  \* a file write followed a request
     offsets |-> <<>>,         \* offsets the Collector requested, in order
     fetched |-> <<>>,         \* of which those whose page was received
     repeat |-> FALSE,         \* the run repeats the previous Collector run
     logAtStart |-> logFile, refAtStart |-> refFile, remoteAtStart |-> remote]

\* the last step issued request req (or "none"), answered out, and wrote files
Observe(h, req, out, files) ==
    [h EXCEPT !.req = req, !.wrote = files,
              !.anyReq = @ \/ req # "none",
              !.anyWrite = @ \/ files # {},
              !.got410 = @ \/ (req # "none" /\ out = "410"),
              !.late = @ \/ (h.got410 /\ (req # "none" \/ files # {})),
              !.allOk = @ /\ (req = "none" \/ out = "ok"),
              !.created = @ \/ req = "create",
              !.lateDelete = @ \/ (req = "delete" /\ h.created),
              !.earlyCreate = @ \/ (req = "create" /\ ~(Range(task_ids) \subseteq h.delTried)),
              !.listed = <<>>,
              !.writes = [f \in {"log", "ref"} |-> IF f \in files THEN @[f] + 1 ELSE @[f]],
              !.reqAfterWrite = @ \/ (req # "none" /\ h.anyWrite),
              !.writeAfterReq = @ \/ (files # {} /\ h.anyReq)]

\* one invocation of the call wrapped by with_retries under key k
Track(h, k, out, raised) ==
    [h EXCEPT !.key = k,
              !.invocations = IF h.key = k THEN @ + 1 ELSE 1,
              !.fails = (IF h.key = k THEN @ ELSE 0) + (IF Raises(out) THEN 1 ELSE 0),
              !.result = IF ~Raises(out) THEN "returned"
                         ELSE IF raised THEN "raised" ELSE "running"]

Ended(h, e) == [h EXCEPT !.exc = e]

(* ------------------------------- Init ---------------------------------- *)
RefChoices ==
    {[exists |-> FALSE, hasHabit |-> FALSE, rows |-> EmptyBag],
     [exists |-> TRUE, hasHabit |-> FALSE, rows |-> EmptyBag],
     [exists |-> TRUE, hasHabit |-> TRUE, rows |-> SetToBag({"a"})],
     [exists |-> TRUE, hasHabit |-> TRUE, rows |-> SetToBag({"a", "b", " "})]}

NoFile == [exists |-> FALSE, rows |-> <<>>]
File(rows) == [exists |-> TRUE, rows |-> rows]

InitialLogs ==
    {NoFile, File(<<>>), File(<<Row(1, "a", "x")>>), File(<<Row(1, "a", "")>>)}

\* items the remote may report as completed today
Filler == Item("other", "a", "y")
ItemUniverse ==
    {Item(PROJECT_ID, "a", "x"), Item(PROJECT_ID, "a", ""), Item(PROJECT_ID, "NA", ""),
     Item(PROJECT_ID, "b", "7"), Item(PROJECT_ID, " ", "z"), Filler}

ShortPages == UNION {[1..n -> ItemUniverse] : n \in 0..MaxShort}
FullPage == [i \in 1..Limit |-> Filler]
CompletedChoices ==
    ShortPages \cup {FullPage \o p : p \in {q \in ShortPages : Len(q) <= 1}}

SmallCompleted == {<<Item(PROJECT_ID, "a", "x")>>, <<Item(PROJECT_ID, "NA", "")>>}

\* a call of the ranking functions for one reference item: the inputs, and
\* the results once computed (priority 0, streaks <<>>: not yet)
Call(on, n, D, u) ==
    [on |-> on, days |-> n, dates |-> D, is_urgent |-> u, priority |-> 0, streaks |-> <<>>]

\* no call of the ranking functions is in progress
NoCall == Call(FALSE, 0, {}, FALSE)

\* the state before the first run, for the given choices of the surroundings
\* and of the call
Start(remotes, completeds, logs, refs, calls) ==
    /\ runs = 0
    /\ day = 1
    /\ remote \in remotes
    /\ completed \in completeds
    /\ logFile \in logs
    /\ refFile \in refs
    /\ script = "none"
    /\ pc = "idle"
    /\ exitCode = -1
    /\ attempt = 0
    /\ task_ids = <<>>
    /\ idx = 0
    /\ deleted_count = 0
    /\ parent_id = 0
    /\ completed_items = <<>>
    /\ offset = 0
    /\ hist = HistInit(TRUE)
    /\ engine \in calls

\* both scripts
Init == Start({{[id |-> 1, content |-> "a"]}}, {<<>>},
              {NoFile, File(<<Row(1, "a", "")>>)}, RefChoices, {NoCall})
\* the Reconciler alone
InitRebuild == Start(SUBSET InitialTasks, {<<>>}, {File(<<Row(1, "a", "")>>)}, RefChoices,
                     {NoCall})
\* the ranking functions alone, for one reference item
InitEngine == Start({{}}, {<<>>}, {NoFile}, {CHOOSE r \in RefChoices : r.hasHabit},
                    {Call(TRUE, n, D, u) : n \in DayInputs, D \in DateSets, u \in BOOLEAN})
\* the Collector alone
InitCollect == Start({{}}, {<<>>}, InitialLogs, {CHOOSE r \in RefChoices : r.hasHabit},
                     {NoCall})

Idle == pc \in {"idle", "end"}

(* ============================ rebuild.py =============================== *)
\* lines 18-21: the credential check
StartRebuild(tok) ==
    /\ Idle /\ runs < MaxRuns
    /\ runs' = runs + 1
    /\ script' = "rebuild"
    /\ attempt' = 0 /\ task_ids' = <<>> /\ idx' = 0
    /\ deleted_count' = 0 /\ parent_id' = 0
    /\ IF credential_missing(tok)
       THEN /\ pc' = "end" /\ exitCode' = 1
            /\ hist' = Ended(HistInit(tok), "SystemExit")
       ELSE /\ pc' = "load" /\ exitCode' = -1
            /\ hist' = HistInit(tok)
    /\ UNCHANGED <<envVars, fileVars, collectLocals>>
    /\ UNCHANGED engine

\* lines 52-63: read both files; a missing reference file ends the run
RebuildLoad ==
    /\ script = "rebuild" /\ pc = "load"
    /\ IF ~refFile.exists
       THEN /\ pc' = "end" /\ exitCode' = 1
            /\ hist' = Ended(Observe(hist, "none", "", {}), "SystemExit")
       ELSE /\ pc' = "calc" /\ exitCode' = exitCode
            /\ hist' = Observe(hist, "none", "", {})
    /\ UNCHANGED <<runs, envVars, fileVars, script, rebuildLocals, collectLocals>>
    /\ UNCHANGED engine

\* lines 65-115: statistics and priorities; habit_reference['Habit'] raises
\* KeyError when the column is missing
RebuildCalc ==
    /\ script = "rebuild" /\ pc = "calc"
    /\ IF ~refFile.hasHabit
       THEN /\ pc' = "end" /\ exitCode' = 1
            /\ hist' = Ended(Observe(hist, "none", "", {}), "KeyError")
       ELSE /\ pc' = "save" /\ exitCode' = exitCode
            /\ hist' = Observe(hist, "none", "", {})
    /\ UNCHANGED <<runs, envVars, fileVars, script, rebuildLocals, collectLocals>>
    /\ UNCHANGED engine

\* lines 117-120: both files are written back
RebuildSave ==
    /\ script = "rebuild" /\ pc = "save"
    /\ logFile' = to_csv(read_csv(logFile))
    /\ refFile' = [exists |-> TRUE, hasHabit |-> TRUE, rows |-> refFile.rows]
    /\ pc' = "list"
    /\ attempt' = 0
    /\ hist' = Observe(hist, "none", "", {"log", "ref"})
    /\ UNCHANGED <<runs, envVars, script, exitCode, task_ids, idx, deleted_count,
                   parent_id, collectLocals>>
    /\ UNCHANGED engine

\* the loop stops one identifier short
AfterDelete_short(i, ids) == IF i >= Len(ids) THEN "parent" ELSE "delete"

\* where the script stands once the delete loop has handled position i - 1
AfterDelete(i, ids) == IF i > Len(ids) THEN "parent" ELSE "delete"

\* lines 125-186: list the active tasks (with_retries, 4 attempts), normalise
ListTasks(out, shape, styles) ==
    /\ script = "rebuild" /\ pc = "list"
    /\ LET existing_tasks == ListResponse(remote, shape, styles)
           raised == Raises(out) /\ with_retries_raises(attempt, ListMaxAttempts)
           h0 == Track(Observe(hist, "list", out, {}), <<"list", 0>>, out, raised)
           h == [h0 EXCEPT !.listed = IF Raises(out) THEN <<>> ELSE <<existing_tasks>>,
                           !.listStatus = IF Raises(out) THEN 0 ELSE StatusOf(out)]
       IN IF Raises(out)
          THEN IF raised
               THEN /\ pc' = "end" /\ exitCode' = 1
                    /\ hist' = Ended(h, "SystemExit")
                    /\ UNCHANGED <<attempt, task_ids, idx>>
               ELSE /\ attempt' = attempt + 1
                    /\ hist' = h
                    /\ UNCHANGED <<pc, exitCode, task_ids, idx>>
          ELSE IF is_410(StatusOf(out)) \/ ~is_2xx(StatusOf(out))
               THEN /\ pc' = "end" /\ exitCode' = 1
                    /\ hist' = Ended(h, "SystemExit")
                    /\ UNCHANGED <<attempt, task_ids, idx>>
               ELSE /\ task_ids' = collect_task_ids(source_list(existing_tasks))
                    /\ idx' = 1
                    /\ attempt' = 0
                    /\ pc' = AfterDelete(1, task_ids')
                    /\ exitCode' = exitCode
                    /\ hist' = h
    /\ UNCHANGED <<runs, envVars, fileVars, script, deleted_count, parent_id,
                   collectLocals>>
    /\ UNCHANGED engine

\* lines 188-214: one invocation of do_delete for task_ids[idx]
\* (with_retries, 3 attempts)
DeleteTask(out) ==
    /\ script = "rebuild" /\ pc = "delete"
    /\ LET task_id == task_ids[idx]
           raised == Raises(out) /\ with_retries_raises(attempt, DeleteMaxAttempts)
           h0 == Track(Observe(hist, "delete", out, {}), <<"delete", idx>>, out, raised)
           h1 == [h0 EXCEPT !.delTried = @ \cup {task_id}]
           h2 == [h1 EXCEPT !.del2xx = IF out = "ok" THEN @ + 1 ELSE @]
       IN /\ remote' = IF Applied(out) THEN {t \in remote : t.id # task_id} ELSE remote
          /\ IF Raises(out)
             THEN IF raised
                  THEN \* line 195-197: caught, continue with the next id
                       /\ idx' = idx + 1 /\ attempt' = 0
                       /\ pc' = AfterDelete(idx + 1, task_ids)
                       /\ hist' = h2
                       /\ UNCHANGED <<exitCode, deleted_count>>
                  ELSE /\ attempt' = attempt + 1
                       /\ hist' = h1
                       /\ UNCHANGED <<pc, exitCode, idx, deleted_count>>
             ELSE IF is_410(StatusOf(out))
                  THEN /\ pc' = "end" /\ exitCode' = 1
                       /\ hist' = Ended(h2, "SystemExit")
                       /\ UNCHANGED <<attempt, idx, deleted_count>>
                  ELSE /\ deleted_count' =
                            IF is_2xx(StatusOf(out)) THEN deleted_count + 1
                            ELSE deleted_count
                       /\ idx' = idx + 1 /\ attempt' = 0
                       /\ pc' = AfterDelete(idx + 1, task_ids)
                       /\ exitCode' = exitCode
                       /\ hist' = h2
    /\ UNCHANGED <<runs, day, completed, fileVars, script, task_ids, parent_id,
                   collectLocals>>
    /\ UNCHANGED engine

\* the returned id is not tested
has_id_always(out) == TRUE

\* lines 250-251: parent_task.get("id") is truthy
has_id(out) == out # "ok_noid"

\* lines 216-253: one invocation of create_task(parent_payload)
\* (with_retries, 4 attempts)
CreateParent(out) ==
    /\ script = "rebuild" /\ pc = "parent"
    /\ Applied(out) => FreshIds # {}
    /\ LET raised == Raises(out) /\ with_retries_raises(attempt, ParentMaxAttempts)
           h == [Track(Observe(hist, "create", out, {}), <<"parent", 0>>, out, raised)
                   EXCEPT !.parentOut = out]
       IN /\ remote' = IF Applied(out)
                       THEN remote \cup {[id |-> FreshId, content |-> ParentContent]}
                       ELSE remote
          /\ IF Raises(out)
             THEN IF raised
                  THEN /\ pc' = "end" /\ exitCode' = 1
                       /\ hist' = Ended(h, "SystemExit")
                       /\ UNCHANGED <<attempt, parent_id>>
                  ELSE /\ attempt' = attempt + 1
                       /\ hist' = h
                       /\ UNCHANGED <<pc, exitCode, parent_id>>
             ELSE IF is_410(StatusOf(out)) \/ ~is_2xx(StatusOf(out)) \/ ~has_id(out)
                  THEN /\ pc' = "end" /\ exitCode' = 1
                       /\ hist' = Ended(h, "SystemExit")
                       /\ UNCHANGED <<attempt, parent_id>>
                  ELSE /\ parent_id' = FreshId
                       /\ attempt' = 0
                       /\ pc' = "children"
                       /\ exitCode' = exitCode
                       /\ hist' = h
    /\ UNCHANGED <<runs, day, completed, fileVars, script, task_ids, idx,
                   deleted_count, collectLocals>>
    /\ UNCHANGED engine

\* lines 255-288: the loop header reads food_reference, a name the script
\* never binds: NameError, uncaught, ends the run before any child is created
CreateChildren ==
    /\ script = "rebuild" /\ pc = "children"
    /\ pc' = "end" /\ exitCode' = 1
    /\ hist' = Ended(Observe(hist, "none", "", {}), "NameError")
    /\ UNCHANGED <<runs, envVars, fileVars, script, rebuildLocals, collectLocals>>
    /\ UNCHANGED engine

(* ============================ collect.py =============================== *)
\* lines 7-25: the credential check and the first request's parameters
StartCollect(tok, d, c) ==
    /\ Idle /\ runs < MaxRuns
    /\ runs' = runs + 1
    /\ day' = d /\ completed' = c
    /\ script' = "collect"
    /\ completed_items' = <<>> /\ offset' = 0
    /\ LET h == [HistInit(tok) EXCEPT
                   !.repeat = /\ script = "collect" /\ exitCode = 0
                              /\ d = day /\ c = completed]
       IN IF credential_missing(tok)
          THEN /\ pc' = "end" /\ exitCode' = 1
               /\ hist' = Ended(h, "SystemExit")
          ELSE /\ pc' = "fetch" /\ exitCode' = -1
               /\ hist' = h
    /\ UNCHANGED <<remote, fileVars, rebuildLocals>>
    /\ UNCHANGED engine

\* the page the remote answers for offset and limit
Page(off) == SubSeq(completed, off + 1, Min(off + Limit, Len(completed)))

\* a full page ends the loop too
is_short_page_or_full(returned) == returned <= Limit

\* line 51: returned < params["limit"]
is_short_page(returned) == returned < Limit

\* lines 29-53: one pass of the pagination loop (requests.get, not retried)
FetchCompleted(out) ==
    /\ script = "collect" /\ pc = "fetch"
    /\ LET h0 == Observe(hist, "completed", out, {})
           h == [h0 EXCEPT !.offsets = Append(@, offset),
                           !.fetched = IF out = "ok" THEN Append(@, offset) ELSE @]
           items == Page(offset)
       IN IF Raises(out)
          THEN /\ pc' = "end" /\ exitCode' = 1
               /\ hist' = Ended(h, "RequestException")
               /\ UNCHANGED collectLocals
          ELSE IF is_410(StatusOf(out))
          THEN /\ pc' = "end" /\ exitCode' = 1
               /\ hist' = Ended(h, "SystemExit")
               /\ UNCHANGED collectLocals
          ELSE IF ~is_2xx(StatusOf(out))
          THEN \* line 40: raise_for_status, uncaught
               /\ pc' = "end" /\ exitCode' = 1
               /\ hist' = Ended(h, "HTTPError")
               /\ UNCHANGED collectLocals
          ELSE /\ hist' = h
               /\ exitCode' = exitCode
               /\ IF items = <<>>
                  THEN pc' = "dedupe" /\ UNCHANGED collectLocals
                  ELSE /\ completed_items' = completed_items \o items
                       /\ IF is_short_page(Len(items))
                          THEN pc' = "dedupe" /\ offset' = offset
                          ELSE pc' = "fetch" /\ offset' = offset + Len(items)
    /\ UNCHANGED <<runs, envVars, fileVars, script, rebuildLocals>>
    /\ UNCHANGED engine

\* lines 57-106: load the log, queue the new rows, save
DedupeAndSave ==
    /\ script = "collect" /\ pc = "dedupe"
    /\ LET habit_record == read_csv(logFile)
           queued == new_entries(completed_items, habit_record, day)
       IN /\ IF queued # <<>>
             THEN /\ logFile' = to_csv(habit_record \o queued)
                  /\ hist' = [Observe(hist, "none", "", {"log"}) EXCEPT
                                !.appended = Len(queued)]
             ELSE /\ logFile' = logFile
                  /\ hist' = Observe(hist, "none", "", {})
    /\ pc' = "end" /\ exitCode' = 0
    /\ UNCHANGED <<runs, envVars, refFile, script, rebuildLocals, collectLocals>>
    /\ UNCHANGED engine

(* ========================= ranking functions =========================== *)
\* rebuild.py 114: Days_Since_Eaten.apply(get_priority), for one item
ApplyPriority ==
    /\ engine.on /\ engine.priority = 0
    /\ engine' = [engine EXCEPT !.priority = get_priority(engine.days)]
    /\ UNCHANGED <<runs, envVars, fileVars, script, pc, exitCode, rebuildLocals,
                   collectLocals, hist>>

\* design 4.1: the engine is called for the item
ComputeStreaks ==
    /\ engine.on /\ engine.streaks = <<>>
    /\ engine' = [engine EXCEPT
                    !.streaks = <<streaks(engine.dates, engine.is_urgent, Today)>>]
    /\ UNCHANGED <<runs, envVars, fileVars, script, pc, exitCode, rebuildLocals,
                   collectLocals, hist>>

(* ------------------------------- Next ---------------------------------- *)
ListOutcomes == {"ok", "neterr", "410", "500"}
DeleteOutcomes == {"ok", "neterr", "timeout", "410", "500"}
CreateOutcomes == {"ok", "ok_noid", "neterr", "timeout", "410", "500"}

\* the steps of rebuild.py other than the list call
RebuildSteps ==
    \/ \E tok \in BOOLEAN : StartRebuild(tok)
    \/ RebuildLoad
    \/ RebuildCalc
    \/ RebuildSave
    \/ \E out \in DeleteOutcomes : DeleteTask(out)
    \/ \E out \in CreateOutcomes : CreateParent(out)
    \/ CreateChildren

\* rebuild.py, the list call answered with entries of any two styles
RebuildNext ==
    \/ RebuildSteps
    \/ \E out \in ListOutcomes, sh \in Shapes, sts \in StyleLists : ListTasks(out, sh, sts)

\* the day of a run: the day of the run before, or the next
Days == {d \in day..MaxDay : d <= day + 1}

\* what the remote reports as completed in a run: the list of the run before,
\* or another one
Reported == {completed} \cup SmallCompleted
FirstReported == IF runs = 0 THEN CompletedChoices ELSE Reported

CollectNext ==
    \/ \E tok \in BOOLEAN, d \in Days, c \in FirstReported : StartCollect(tok, d, c)
    \/ \E out \in ListOutcomes : FetchCompleted(out)
    \/ DedupeAndSave

\* both scripts, the list call answered with entries of one style
Next ==
    \/ RebuildSteps
    \/ \E out \in ListOutcomes, sh \in Shapes, st \in Styles : ListTasks(out, sh, <<st, st>>)
    \/ \E tok \in BOOLEAN, d \in Days, c \in Reported : StartCollect(tok, d, c)
    \/ \E out \in ListOutcomes : FetchCompleted(out)
    \/ DedupeAndSave

EngineNext ==
    \/ ApplyPriority
    \/ ComputeStreaks

Spec == Init /\ [][Next]_vars
SpecEngine == InitEngine /\ [][EngineNext]_vars
SpecRebuild == InitRebuild /\ [][RebuildNext]_vars
SpecCollect == InitCollect /\ [][CollectNext]_vars
\* the Collector alone, a request in the pagination loop is answered eventually
SpecCollectLive ==
    SpecCollect /\ WF_vars(\E out \in ListOutcomes : FetchCompleted(out))

(* ============================== claims ================================= *)
RebuildEnded == script = "rebuild" /\ pc = "end"

\* active tasks of the project that carry the display text n
Carrying(n) == {t \in remote : t.content = n}

\* display texts of the reference rows whose trimmed item name is non-empty
RowTexts == {Strip(n) : n \in BagToSet(refFile.rows)} \ {""}
RowCount(n) == IF n \in BagToSet(refFile.rows) THEN CopiesIn(n, refFile.rows) ELSE 0

\* C1 (as claimed): a Reconciler run that got through its create phase with
\* every request answered 2xx leaves exactly one active task per reference
\* row with a non-empty trimmed name, plus the one parent created in the run.
C1_SuccessfulRunRebuilds ==
    (RebuildEnded /\ hist.created /\ hist.allOk) =>
        /\ \A n \in RowTexts : Cardinality(Carrying(n)) = RowCount(n)
        /\ Cardinality(Carrying(ParentContent)) = 1
        /\ \A t \in remote : t.content \in RowTexts \cup {ParentContent}

C3_PurgePrecedesCreate ==
    script = "rebuild" =>
        /\ ~hist.earlyCreate
        /\ ~hist.lateDelete
        /\ hist.created => Range(task_ids) \subseteq hist.delTried

\* C3 witness: the parent create was issued after two enumerated tasks.
C3_Witness ==
    script = "rebuild" /\ hist.created /\ Len(task_ids) = 2 /\ hist.req = "create"

\* the delete loop is over and the create phase has begun
PurgeOver == script = "rebuild" /\ (pc \in {"parent", "children"} \/ hist.created)

\* C4: a failed deletion does not abort the purge: deleted_count is the
\* number of deletes answered 2xx throughout; only a 410 ends the run inside
\* the delete loop; and once the loop is over a delete has been attempted
\* for every enumerated identifier.
C4_FailedDeleteDoesNotAbort ==
    script = "rebuild" =>
        /\ deleted_count = hist.del2xx
        /\ (pc = "end" /\ hist.req = "delete") => hist.got410
        /\ PurgeOver => hist.delTried = Range(task_ids)

\* C4 witness: one delete among two failed; the run is at the parent create
\* with deleted_count = 1, attempted = 2.
C4_Witness ==
    /\ script = "rebuild" /\ pc = "parent"
    /\ Len(task_ids) = 2 /\ deleted_count = 1 /\ hist.del2xx = 1
    /\ hist.result = "raised"

CollectEnded == script = "collect" /\ pc = "end"

\* C5 (as claimed): a Collector run that repeats the previous Collector run
\* (same day, unchanged completed-items response, both runs completing)
\* appends zero rows.
C5_SecondRunAppendsNothing ==
    (CollectEnded /\ exitCode = 0 /\ hist.repeat) => hist.appended = 0

\* C6 (as claimed): the completion log keeps its uniqueness key: no two rows
\* have the same non-empty remote_task_id, and no two rows without one have
\* the same (date, item_name).
C6_UniquenessKey ==
    \A i, j \in 1..Len(logFile.rows) :
        i < j =>
            LET r == logFile.rows[i]
                q == logFile.rows[j]
            IN /\ (r.TaskId # "" /\ q.TaskId # "") => r.TaskId # q.TaskId
               /\ (r.TaskId = "" /\ q.TaskId = "") =>
                      (r.Date # q.Date \/ r.Habit # q.Habit)

\* C7 (as claimed): the completion log is append-only: during and after a
\* run every row present before the run is still there, unchanged and in the
\* same position; the Reconciler adds and removes none.
C7_AppendOnly ==
    script # "none" =>
        LET old == hist.logAtStart.rows
            new == logFile.rows
        IN /\ Len(old) <= Len(new)
           /\ SubSeq(new, 1, Len(old)) = old
           /\ script = "rebuild" => new = old

\* max_attempts at the call sites of with_retries
MaxAttemptsAt(site) ==
    CASE site = "list" -> ListMaxAttempts
      [] site = "delete" -> DeleteMaxAttempts
      [] OTHER -> ParentMaxAttempts

\* C8: with_retries is bounded: the wrapped call is invoked at most
\* max_attempts times, again only after a RequestException and never after an
\* invocation that returned; after max_attempts failures the failure is
\* re-raised.
C8_RetriesBounded ==
    (script = "rebuild" /\ hist.key[1] # "none") =>
        LET max_attempts == MaxAttemptsAt(hist.key[1])
        IN /\ hist.invocations <= max_attempts
           /\ hist.invocations <= hist.fails + 1
           /\ hist.result = "returned" => hist.invocations = hist.fails + 1
           /\ hist.result = "raised" =>
                  hist.fails = max_attempts /\ hist.invocations = max_attempts
           /\ hist.result = "running" =>
                  /\ hist.fails < max_attempts
                  /\ hist.invocations = hist.fails
                  /\ attempt = hist.fails

\* C8 witness: a delete failed on each of its three invocations and the
\* failure was re-raised.
C8_Witness ==
    /\ script = "rebuild" /\ hist.key[1] = "delete"
    /\ hist.result = "raised" /\ hist.invocations = DeleteMaxAttempts

\* C9: a 410 response is fatal and never retried: once a remote call of a
\* run has answered 410 the run has ended with exit status 1, and no request
\* and no file write followed that response.
C9_Fatal410 ==
    hist.got410 => pc = "end" /\ exitCode = 1 /\ ~hist.late

\* C9 witness: a delete was answered 410, after the files had been written.
C9_Witness ==
    hist.got410 /\ hist.req = "delete" /\ hist.anyWrite /\ script = "rebuild"

\* the credential, the reference file or its item-name column is missing
StartupFailure ==
    /\ script # "none"
    /\ \/ ~hist.token
       \/ script = "rebuild" /\ ~hist.refAtStart.exists
       \/ script = "rebuild" /\ ~hist.refAtStart.hasHabit

\* C10: a startup failure performs no partial work: the run issues no remote
\* request and writes neither file, never gets past its load and calculation
\* steps, and ends with exit status 1.
C10_StartupFailureNoWork ==
    StartupFailure =>
        /\ ~hist.anyReq /\ ~hist.anyWrite
        /\ logFile = hist.logAtStart /\ refFile = hist.refAtStart
        /\ remote = hist.remoteAtStart
        /\ pc \in {"load", "calc", "end"}
        /\ pc = "end" => exitCode = 1

\* C10 witness: the Reconciler ended on the missing item-name column.
C10_Witness ==
    script = "rebuild" /\ pc = "end" /\ hist.exc = "KeyError" /\ hist.token

\* the listed sequence of a response of a recognized shape (as a one-element
\* sequence), or <<>>: the bare list, the list under 'results', or the list
\* under 'items'
RecognizedEntries(body) ==
    IF body.kind = "list" THEN <<body.list>>
    ELSE IF body.kind = "dict" /\ body.results.tag = "list" THEN <<body.results.v>>
    ELSE IF body.kind = "dict" /\ body.items.tag = "list" THEN <<body.items.v>>
    ELSE <<>>

\* an object entry with an id, or a bare identifier
IsIdEntry(e) == (e.t = "dict" /\ e.id # 0) \/ (e.t = "str" /\ e.s # 0)
IdOf(e) == IF e.t = "dict" THEN e.id ELSE e.s

\* the list call of the last step returned 2xx with a body
Listed == script = "rebuild" /\ hist.listed # <<>> /\ hist.listStatus = 200

\* C11: normalisation yields the task ids in response order: for a bare list
\* or an object with a list under 'results' or 'items' whose entries are
\* objects with an id or bare identifiers, task_ids is, entry by entry and in
\* order, the id of each object entry and the string of each bare identifier.
C11_NormalizedIdsInOrder ==
    Listed =>
        LET rec == RecognizedEntries(hist.listed[1])
        IN (rec # <<>> /\ \A i \in 1..Len(rec[1]) : IsIdEntry(rec[1][i])) =>
               task_ids = [i \in 1..Len(rec[1]) |-> IdOf(rec[1][i])]

\* C11 witness: {"items": [{"id": 1}, "2"]} was normalised to the ids 1, 2.
C11_Witness ==
    /\ Listed
    /\ hist.listed[1].kind = "dict" /\ hist.listed[1].items.tag = "list"
    /\ Len(hist.listed[1].items.v) = 2
    /\ hist.listed[1].items.v[1].t = "dict" /\ hist.listed[1].items.v[1].id = 1
    /\ hist.listed[1].items.v[2].t = "str"
    /\ task_ids = <<1, 2>>

\* C12: the priority tier is a function of days_since_last_completion alone:
\* 6 or more gives 4, exactly 5 gives 3, 3 or 4 gives 2, anything else 1; it
\* lies in 1..4 and never decreases as the day count grows.
C12_PriorityTier ==
    (engine.on /\ engine.priority # 0) =>
        LET d == engine.days
            tier == engine.priority
        IN /\ tier \in 1..4
           /\ d >= 6 <=> tier = 4
           /\ d = 5 <=> tier = 3
           /\ d \in {3, 4} <=> tier = 2
           /\ d < 3 <=> tier = 1
           /\ \A e \in DayInputs : e <= d => get_priority(e) <= tier

\* C12 witness: six days give the highest tier.
C12_Witness == engine.on /\ engine.days = 6 /\ engine.priority = 4

\* reference rows whose trimmed item name is non-empty (" " is the blank name)
NamedRows == BagCardinality(refFile.rows) - RowCount(" ")

\* C13 (as claimed): a failed creation does not abort the recreate step: in a
\* run that created its parent and met no 410, a child create is attempted
\* for each reference row with a non-empty name, whatever the creates answer.
C13_EveryRowAttempted ==
    (RebuildEnded /\ parent_id # 0 /\ ~hist.got410) => hist.childReqs = NamedRows

\* the days Y, Y-1, ..., Y-k+1 are all completion dates
AllIn(D, Y, k) == \A i \in 0..(k - 1) : (Y - i) \in D

\* C14: with Y the day before today, current_streak(D) is the number of
\* consecutive days Y, Y-1, ... that are all in D, and it is 0 exactly when
\* Y is not in D; today itself is never counted.
C14_CurrentStreak ==
    (engine.on /\ engine.streaks # <<>>) =>
        LET D == engine.dates
            Y == Today - 1
            k == engine.streaks[1].current_streak
        IN /\ k >= 0
           /\ AllIn(D, Y, k)
           /\ (Y - k) \notin D
           /\ k = 0 <=> Y \notin D
           /\ k = streaks(D \ {Today}, engine.is_urgent, Today).current_streak

\* C14 witness: completions the day before yesterday, yesterday and today
\* give a current streak of 2.
C14_Witness ==
    /\ engine.on /\ engine.streaks # <<>>
    /\ engine.dates = {Today - 2, Today - 1, Today}
    /\ engine.streaks[1].current_streak = 2

\* the engine was called for item X of the scenario: completions on February
\* 10, 11, 12 and 14, not urgent, window from the 14th, the 16th today
Scenario ==
    /\ engine.on /\ engine.streaks # <<>>
    /\ engine.dates = {10, 11, 12, 14} /\ ~engine.is_urgent
    /\ epoch(engine.is_urgent) = 14 /\ Today = 16

\* C15 (as claimed): the scenario gives current_streak=1, best_streak=3,
\* total_days=2, days_completed=1, percentage=50.
C15_ScenarioAsClaimed ==
    Scenario =>
        engine.streaks[1] = [current_streak |-> 1, best_streak |-> 3, total_days |-> 2,
                             days_completed |-> 1, percentage |-> 50]

\* C15 (amended): the scenario gives current_streak=0 (yesterday, the 15th,
\* is not a completion date), best_streak=3, total_days=2, days_completed=1,
\* percentage=50.
C15_Scenario ==
    Scenario =>
        engine.streaks[1] = [current_streak |-> 0, best_streak |-> 3, total_days |-> 2,
                             days_completed |-> 1, percentage |-> 50]

\* C15 witness: the engine has answered for the scenario.
C15_Witness == Scenario /\ engine.streaks[1].best_streak = 3

\* the list call failed on each of its attempts, or was answered non-2xx
ListFailed ==
    /\ script = "rebuild"
    /\ \/ hist.key[1] = "list" /\ hist.fails >= ListMaxAttempts
       \/ hist.listStatus # 0 /\ ~(200 <= hist.listStatus /\ hist.listStatus < 300)

\* C16: a failed enumerate step is fatal before anything is destroyed: when
\* the list call fails on every attempt or is answered non-2xx, the run has
\* ended with exit status 1 and has issued no delete and no create request.
C16_ListFailureFatal ==
    ListFailed =>
        /\ pc = "end" /\ exitCode = 1
        /\ hist.delTried = {} /\ ~hist.created /\ hist.childReqs = 0
        /\ hist.req = "list"
        /\ remote = hist.remoteAtStart

\* C16 witness: the list call raised on all four attempts while the project
\* held two tasks.
C16_Witness ==
    /\ ListFailed /\ hist.fails = ListMaxAttempts /\ hist.result = "raised"
    /\ Cardinality(remote) = 2

RECURSIVE PagesAt(_)
\* the pages at the given offsets, one after the other
PagesAt(offs) == IF offs = <<>> THEN <<>> ELSE Page(Head(offs)) \o PagesAt(Tail(offs))

\* the Collector is in its pagination loop
Fetching == script = "collect" /\ pc = "fetch"

\* the offsets requested are 0, L, 2L, ..., each page but the last received
\* is full, the loop goes on only after a full page and is left only after a
\* page that is empty or short, and the collected items are the pages
\* received, in order
C17_Paging ==
    script = "collect" =>
        /\ \A i \in 1..Len(hist.offsets) : hist.offsets[i] = (i - 1) * Limit
        /\ \/ hist.fetched = hist.offsets
           \/ /\ hist.offsets # <<>> /\ pc = "end" /\ exitCode = 1
              /\ hist.fetched = SubSeq(hist.offsets, 1, Len(hist.offsets) - 1)
        /\ completed_items = PagesAt(hist.fetched)
        /\ \A i \in 1..(Len(hist.fetched) - 1) : Len(Page(hist.fetched[i])) = Limit
        /\ (Fetching /\ hist.fetched # <<>>) =>
               Len(Page(hist.fetched[Len(hist.fetched)])) = Limit
        /\ (pc = "dedupe" \/ (pc = "end" /\ exitCode = 0)) =>
               /\ hist.fetched # <<>>
               /\ Len(Page(hist.fetched[Len(hist.fetched)])) < Limit

\* C17: the Collector pages until a short page: offsets 0, L, 2L, ..., it
\* stops at the first page that is empty or holds fewer than L items, the
\* collected items are the pages fetched in order, none fetched twice; and
\* the loop is always left in the end.
C17_PagesUntilShort == []C17_Paging /\ (Fetching ~> ~Fetching)

\* C17 witness: the loop was left after a full page and a page of one item.
C17_Witness ==
    /\ script = "collect" /\ pc = "dedupe"
    /\ hist.fetched = <<0, Limit>> /\ Len(completed_items) = Limit + 1

\* the run was ended by a remote call: an exception, a 410 or another non-2xx
EndedOnRemoteFailure == pc = "end" /\ exitCode = 1 /\ hist.req # "none"

\* C18 (as claimed): in each run of either script every local file is
\* written at most once, no remote call follows a write, and a run ended by
\* a remote failure has written no file.
C18_WrittenOnceAtEnd ==
    script # "none" =>
        /\ hist.writes.log <= 1 /\ hist.writes.ref <= 1
        /\ ~hist.reqAfterWrite
        /\ EndedOnRemoteFailure => ~hist.anyWrite

\* C18 (amended): every local file is written at most once per run.  The
\* Collector writes the log at the end, after its last remote call, and only
\* if every call was answered 2xx; ended by a remote failure it has written
\* nothing.  The Reconciler writes both files before its first remote call,
\* and none after it: ended by a remote failure it has already written both.
C18_WrittenOnce ==
    /\ script # "none" => hist.writes.log <= 1 /\ hist.writes.ref <= 1
    /\ script = "collect" =>
           /\ ~hist.reqAfterWrite /\ hist.writes.ref = 0
           /\ hist.anyWrite => pc = "end" /\ exitCode = 0 /\ hist.allOk
           /\ EndedOnRemoteFailure => ~hist.anyWrite
    /\ script = "rebuild" =>
           /\ ~hist.writeAfterReq
           /\ hist.anyReq => hist.writes.log = 1 /\ hist.writes.ref = 1

\* C18 witness: a Reconciler run ended by a failed list call after it had
\* written both files.
C18_Witness ==
    /\ script = "rebuild" /\ EndedOnRemoteFailure /\ hist.key[1] = "list"
    /\ hist.writes = [log |-> 1, ref |-> 1]

\* the list call of the last step returned 2xx with a body of no recognized
\* shape: an object with no list under 'results' or 'items', or a value that
\* is neither object nor list
Unrecognized == Listed /\ RecognizedEntries(hist.listed[1]) = <<>>

\* C19 (as claimed): enumeration fails open: a response of no recognized
\* shape is treated as empty, and the run goes on to the create phase
\* without a delete; entries that are neither objects with an id nor strings
\* are left out and the run goes on.
C19_FailsOpenAsClaimed ==
    /\ Unrecognized => task_ids = <<>> /\ pc = "parent"
    /\ (Listed /\ ~Unrecognized) =>
           LET es == RecognizedEntries(hist.listed[1])[1]
               kept == SelectSeq(es, IsIdEntry)
           IN /\ task_ids = [i \in 1..Len(kept) |-> IdOf(kept[i])]
              /\ pc = IF task_ids = <<>> THEN "parent" ELSE "delete"

\* the list of a response: the bare list, or the list under 'results',
\* 'items' or, failing both, any other key of the object; none otherwise
AnyList(body) ==
    IF RecognizedEntries(body) # <<>> THEN RecognizedEntries(body)[1]
    ELSE IF body.kind = "dict" /\ body.data.tag = "list" THEN body.data.v
    ELSE <<>>

\* a bare identifier, or an object with an id, task_id or id_str
IsUsableEntry(e) ==
    \/ e.t = "str" /\ e.s # 0
    \/ e.t = "dict" /\ (e.id # 0 \/ e.task_id # 0 \/ e.id_str # 0)
UsableId(e) ==
    IF e.t = "str" THEN e.s
    ELSE IF e.id # 0 THEN e.id
    ELSE IF e.task_id # 0 THEN e.task_id
    ELSE e.id_str

\* C19 (amended): enumeration fails open: a response that is an object with
\* no list under any key, or neither object nor list, is treated as empty;
\* entries that are neither bare identifiers nor objects with an id, task_id
\* or id_str are left out; no delete is issued for what is left out and the
\* run goes on to the create phase instead of ending.  A list under another
\* key, and an entry's task_id or id_str, are used like the recognized ones.
C19_FailsOpen ==
    /\ Listed =>
           LET kept == SelectSeq(AnyList(hist.listed[1]), IsUsableEntry)
           IN /\ task_ids = [i \in 1..Len(kept) |-> UsableId(kept[i])]
              /\ pc = IF task_ids = <<>> THEN "parent" ELSE "delete"
    /\ script = "rebuild" => hist.delTried \subseteq Range(task_ids)

\* C19 witness: a project of two tasks was listed as an object with no list
\* in it, and the run stands at the parent create with nothing to delete.
C19_Witness ==
    /\ Listed /\ hist.listed[1].kind = "dict" /\ AnyList(hist.listed[1]) = <<>>
    /\ Cardinality(remote) = 2 /\ task_ids = <<>> /\ pc = "parent"

\* the parent create failed for good: it raised on its last attempt, or was
\* answered 410, another non-2xx status, or 2xx without an id
ParentFailed ==
    /\ script = "rebuild"
    /\ \/ hist.key[1] = "parent" /\ hist.result = "raised"
       \/ hist.parentOut \in {"410", "500", "ok_noid"}

\* C20: no child task without a parent of the same run: the run reaches the
\* child creates only after its parent create was answered 2xx with an id,
\* that id is parent_id and names the parent task created in this run; when
\* the parent create fails the run ends with exit status 1 and no child
\* create, after a delete was attempted for every enumerated task.
C20_NoChildWithoutParent ==
    /\ (script = "rebuild" /\ (pc = "children" \/ hist.childReqs > 0)) =>
           /\ hist.parentOut = "ok" /\ parent_id # 0
           /\ parent_id \notin Ids(hist.remoteAtStart)
           /\ [id |-> parent_id, content |-> ParentContent] \in remote
    /\ ParentFailed =>
           /\ pc = "end" /\ exitCode = 1
           /\ hist.childReqs = 0 /\ parent_id = 0
           /\ hist.delTried = Range(task_ids)

\* C20 witness: the parent create raised on its last attempt after two
\* tasks had been purged; the run ended without a child.
C20_Witness ==
    /\ ParentFailed /\ hist.result = "raised" /\ pc = "end"
    /\ Len(task_ids) = 2 /\ deleted_count = 2 /\ hist.childReqs = 0

====
